---- MODULE Spec2Model ----
(***************************************************************************)
(* The bytecode virtual machine of the Monkey language (vm/vm.go): the     *)
(* value stack, the frame stack, the globals slab and the dispatch loop    *)
(* of VM.Run, one action per opcode case of the loop's switch, and the     *)
(* construction of the next VM over the same globals slab once Run has     *)
(* returned (NewVMWithGlobalsStore).  LiveSpec adds that Run, once         *)
(* called, keeps executing: weak fairness of its steps.                    *)
(*                                                                         *)
(* The three slabs NewVM allocates (2048 stack slots, 1024 frame slots,    *)
(* 65536 globals) are kept sparse: stack and frames hold the slots up to   *)
(* the highest one written so far, globals the indices written so far, and *)
(* every other slot reads as the nil the slab was allocated with.  Slots   *)
(* are addressed by the source's zero-based indices through StackAt,       *)
(* FrameAt and GlobalAt, and an index outside the slab is a panic.  A Go   *)
(* runtime panic (index out of range, nil dereference, division by zero)   *)
(* ends the run with status "panic" in the state the panic left behind.    *)
(*                                                                         *)
(* Integer values are mathematical integers; the programs run here use     *)
(* small literals, so no int64 operation overflows.  Closure.Fn is a       *)
(* pointer: the index of the CompiledFunction in the constant pool.        *)
(***************************************************************************)
EXTENDS Integers, Sequences, FiniteSets, TLC

VARIABLES
    prog,         \* the compiler.Bytecode handed to NewVM: [instructions, constants]
    stack,        \* vm.stack
    sp,           \* vm.sp
    globals,      \* vm.globals (sparse)
    frames,       \* vm.frames
    framesIndex,  \* vm.framesIndex
    status,       \* "running" | "ok" (Run returned nil) | "error" (Run returned err) | "panic"
    err,          \* the error Run returned, NoErr otherwise
    last,         \* history: the instruction the loop executed last
    prev,         \* history: the instruction executed before that one
    calls,        \* history: one record per live closure call, innermost last
    vms,          \* history: the number of VMs built so far over the globals slab
    sets,         \* history: index -> the value the latest OpSetGlobal stored there
    iterations    \* history: the iterations of Run's loop so far, counted up to
                  \* one more than len(instructions)

vars == <<prog, stack, sp, globals, frames, framesIndex, status, err, last, prev, calls,
          vms, sets, iterations>>

----------------------------------------------------------------------------
(* Program constants, vm.go:10-12 *)
StackSize == 2048
GlobalsSize == 65536
MaxFrames == 1024

(* Bounds of the checked inputs *)
MaxNumLocals == 2      \* the recursive programs declare 0..MaxNumLocals locals
MaxInt == 2            \* integer literals of the generated programs are 0..MaxInt
MaxPairs == 2          \* the OpConstant; OpPop programs have 1..MaxPairs pairs
MaxTracked == 3        \* calls entered at frame depth 1..MaxTracked remember the stack below them
MaxVMs == 2            \* VMs built one after the other over the same globals slab

----------------------------------------------------------------------------
(* Opcodes (package bytecode).  The numbering is the order of the          *)
(* instruction table; only distinctness matters to the VM.                 *)
OpConstant == 0
OpTrue == 1
OpFalse == 2
OpNull == 3
OpPop == 4
OpAdd == 5
OpSub == 6
OpMul == 7
OpDiv == 8
OpEqual == 9
OpNotEqual == 10
OpGreaterThan == 11
OpMinus == 12
OpBang == 13
OpJump == 14
OpJumpNotTruthy == 15
OpGetGlobal == 16
OpSetGlobal == 17
OpGetLocal == 18
OpSetLocal == 19
OpGetBuiltIn == 20
OpArray == 21
OpHashMap == 22
OpIndex == 23
OpCall == 24
OpReturnValue == 25
OpReturn == 26
OpClosure == 27
OpInvalid == 255       \* a byte that is no opcode

KnownOpcodes == OpConstant..OpClosure

(* Big-endian operands: bytecode.Make writes them, ReadUint16/ReadUint8 read them *)
U16(n) == <<n \div 256, n % 256>>
U8(n) == <<n>>
ReadUint16(bs) == bs[1] * 256 + bs[2]
ReadUint8(bs) == bs[1]

----------------------------------------------------------------------------
(* Values (package object) *)
Nil == [type |-> "nil"]                  \* Go's nil object.Object
Null == [type |-> "NULL"]
True == [type |-> "BOOLEAN", bval |-> TRUE]
False == [type |-> "BOOLEAN", bval |-> FALSE]
Integer(n) == [type |-> "INTEGER", ival |-> n]
String(s) == [type |-> "STRING", sval |-> s]            \* s: a sequence of characters
Array(es) == [type |-> "ARRAY", elements |-> es]
HashMap(kv) == [type |-> "HASHMAP", kvPairs |-> kv]     \* kv: HashKey -> [key, value]
CompiledFunction(ins, nl, np) ==
    [type |-> "COMPILED_FUNCTION", instructions |-> ins, numLocals |-> nl, numParameters |-> np]
Closure(fnPtr) == [type |-> "CLOSURE", Fn |-> fnPtr]    \* Fn: pointer to a CompiledFunction
BuiltIn(name) == [type |-> "BUILTIN", name |-> name]
Error(msg) == [type |-> "ERROR", message |-> msg]

(* Closure.Fn points either at the synthetic main function of NewVM or at the
   CompiledFunction held by constants[k] *)
MainFn == -1

At(seq, i) == seq[i + 1]                 \* zero-based read of a Go slice kept as a sequence
InRange(seq, i) == i >= 0 /\ i < Len(seq)

Type(obj) == obj.type
IsHashable(obj) == obj.type \in {"INTEGER", "BOOLEAN", "STRING"}
HashKey(obj) ==
    CASE obj.type = "INTEGER" -> <<"INTEGER", obj.ival>>
      [] obj.type = "BOOLEAN" -> <<"BOOLEAN", IF obj.bval THEN 1 ELSE 0>>
      [] obj.type = "STRING" -> <<"STRING", obj.sval>>

----------------------------------------------------------------------------
(* Errors: fmt.Errorf(format, args...) kept as <<format, arg, ...>> *)
NoErr == <<>>
Errorf(format, args) == <<format>> \o args

(* The VM as one record, so that the helpers of vm.go can be composed the way
   the handlers call them.  ret is the error a helper returned to its caller.
   History of the instruction: raised is the error some helper returned
   (whether or not its caller looked at it), pushSp the sp at which push was
   attempted and frameAt the framesIndex at which pushFrame was attempted
   (-1: not attempted), native and passed the built-in invoked and the
   arguments handed to it; stored follows the values OpSetGlobal wrote. *)
S ==
    [stack |-> stack, sp |-> sp, globals |-> globals, frames |-> frames,
     framesIndex |-> framesIndex, status |-> status, err |-> err,
     ret |-> NoErr, raised |-> NoErr, pushSp |-> -1, frameAt |-> -1, stored |-> sets,
     native |-> "", passed |-> <<>>]

Running(s) == s.status = "running" /\ s.ret = NoErr

Panic(s) == [s EXCEPT !.status = "panic"]

Fail(s, e) == [s EXCEPT !.ret = e, !.raised = e]

\* a faulty variant of ReturnErr: the error is not looked at and the loop goes on
ReturnErrDropped(s) == s

(* `if err != nil { return err }` in Run *)
ReturnErr(s) ==
    IF s.status = "running" /\ s.ret # NoErr
    THEN [s EXCEPT !.status = "error", !.err = s.ret]
    ELSE s

NewFrame(cl, basePointer) == [cl |-> cl, ip |-> -1, basePointer |-> basePointer]
NoFrame == [cl |-> Nil, ip |-> -1, basePointer |-> 0]    \* a nil *Frame

(* Slot i of a slab kept as the sequence of its slots up to the highest one
   written; WriteAt stores into slot i *)
SlotAt(slab, i, zero) == IF i < Len(slab) THEN slab[i + 1] ELSE zero
WriteAt(slab, i, v, zero) ==
    IF i < Len(slab) THEN [slab EXCEPT ![i + 1] = v]
    ELSE slab \o [j \in 1..(i - Len(slab)) |-> zero] \o <<v>>

StackAt(stk, i) == SlotAt(stk, i, Nil)
FrameAt(frs, i) == SlotAt(frs, i, NoFrame)

\* a faulty variant of SetGlobalAt: the value lands in the slot after the one addressed
SetGlobalAtNextSlot(g, i, v) ==
    [j \in (DOMAIN g) \cup {(i + 1) % GlobalsSize} |->
        IF j = (i + 1) % GlobalsSize THEN v ELSE g[j]]

GlobalAt(g, i) == IF i \in DOMAIN g THEN g[i] ELSE Nil
SetGlobalAt(g, i, v) == [j \in (DOMAIN g) \cup {i} |-> IF j = i THEN v ELSE g[j]]

currentFrame(s) == FrameAt(s.frames, s.framesIndex - 1)

FnOf(cl) == IF cl.Fn = MainFn
            THEN CompiledFunction(prog.instructions, 0, 0)
            ELSE At(prog.constants, cl.Fn)

Instructions(f) == FnOf(f.cl).instructions

push(s, obj) ==
    IF ~Running(s) THEN s
    ELSE LET a == [s EXCEPT !.pushSp = s.sp]
         IN  IF a.sp >= StackSize THEN Fail(a, Errorf("stack overflow", <<>>))
             ELSE IF a.sp < 0 THEN Panic(a)
             ELSE [a EXCEPT !.stack = WriteAt(a.stack, a.sp, obj, Nil), !.sp = a.sp + 1]

(* pop returns stack[sp-1]; Top is that value, pop the state it leaves *)
Top(s) == StackAt(s.stack, s.sp - 1)

pop(s) ==
    IF ~Running(s) THEN s
    ELSE IF s.sp - 1 < 0 \/ s.sp - 1 >= StackSize THEN Panic(s)
    ELSE [s EXCEPT !.sp = s.sp - 1]

pushFrame(s, f) ==
    IF ~Running(s) THEN s
    ELSE LET a == [s EXCEPT !.frameAt = s.framesIndex]
         IN  IF a.framesIndex < 0 \/ a.framesIndex >= MaxFrames THEN Panic(a)
             ELSE [a EXCEPT !.frames = WriteAt(a.frames, a.framesIndex, f, NoFrame),
                            !.framesIndex = a.framesIndex + 1]

(* popFrame returns frames[framesIndex-1]; PoppedFrame is that frame *)
PoppedFrame(s) == FrameAt(s.frames, s.framesIndex - 1)

popFrame(s) ==
    IF ~Running(s) THEN s
    ELSE IF s.framesIndex - 1 < 0 \/ s.framesIndex - 1 >= MaxFrames THEN Panic(s)
    ELSE [s EXCEPT !.framesIndex = s.framesIndex - 1]

nativeBoolToBooleanObject(input) == IF input THEN True ELSE False

\* a faulty variant of isTruthy: the integer 0 counts as false
isTruthyZeroIsFalse(obj) ==
    CASE obj.type = "BOOLEAN" -> obj.bval
      [] obj.type = "NULL" -> FALSE
      [] obj.type = "INTEGER" -> obj.ival # 0
      [] OTHER -> TRUE

isTruthy(obj) ==
    CASE obj.type = "BOOLEAN" -> obj.bval
      [] obj.type = "NULL" -> FALSE
      [] OTHER -> TRUE

\* frames[framesIndex-1] is element framesIndex of the sequence
AddIp(s, n) ==
    IF ~Running(s) THEN s
    ELSE [s EXCEPT !.frames[s.framesIndex].ip = @ + n]

\* a faulty variant of SetIp: the jump forgets the loop's pre-increment
SetIpNoPreIncrement(s, pos) ==
    IF ~Running(s) THEN s
    ELSE [s EXCEPT !.frames[s.framesIndex].ip = pos + 1]

\* `vm.currentFrame().ip = jumpToPos - 1`
SetIp(s, pos) ==
    IF ~Running(s) THEN s
    ELSE [s EXCEPT !.frames[s.framesIndex].ip = pos]

(* The inspection hooks.  Each returns [v |-> the value] or Faulted when the
   slot it reads lies outside the value stack (index out of range). *)
Faulted == [panic |-> TRUE]
Returned(v) == [v |-> v]

StackTop(s) ==
    IF s.sp = 0 THEN Returned(Nil)
    ELSE IF s.sp - 1 < 0 \/ s.sp - 1 >= StackSize THEN Faulted
    ELSE Returned(StackAt(s.stack, s.sp - 1))

\* a faulty variant of LastPoppedStackElem: it reads the slot above the one popped
LastPoppedStackElemAbove(s) ==
    IF s.sp + 1 < 0 \/ s.sp + 1 >= StackSize THEN Faulted
    ELSE Returned(StackAt(s.stack, s.sp + 1))

LastPoppedStackElem(s) ==
    IF s.sp < 0 \/ s.sp >= StackSize THEN Faulted
    ELSE Returned(StackAt(s.stack, s.sp))

----------------------------------------------------------------------------
(* Operator routines *)

\* Go's int64 division truncates toward zero
TruncDiv(a, b) ==
    IF (a >= 0) = (b >= 0)
    THEN (IF a >= 0 THEN a ELSE -a) \div (IF b >= 0 THEN b ELSE -b)
    ELSE -((IF a >= 0 THEN a ELSE -a) \div (IF b >= 0 THEN b ELSE -b))

executeBinaryIntegerOperation(s, o, left, right) ==
    IF o = OpAdd THEN push(s, Integer(left.ival + right.ival))
    ELSE IF o = OpSub THEN push(s, Integer(left.ival - right.ival))
    ELSE IF o = OpMul THEN push(s, Integer(left.ival * right.ival))
    ELSE IF o = OpDiv
         THEN (IF right.ival = 0 THEN Panic(s)
               ELSE push(s, Integer(TruncDiv(left.ival, right.ival))))
    ELSE Fail(s, Errorf("unknown binary integer operator: %d", <<o>>))

executeBinaryStringOperation(s, o, left, right) ==
    IF o = OpAdd THEN push(s, String(left.sval \o right.sval))
    ELSE Fail(s, Errorf("unknown binary string operator: %d", <<o>>))

\* a faulty variant of executeBinaryOperation: the error names the right type first
executeBinaryOperationTypesSwapped(s, o) ==
    LET right == Top(s)
        s1 == pop(s)
        left == Top(s1)
        s2 == pop(s1)
    IN  IF ~Running(s2) THEN s2
        ELSE IF left = Nil \/ right = Nil THEN Panic(s2)
        ELSE IF Type(left) = "INTEGER" /\ Type(right) = "INTEGER"
             THEN executeBinaryIntegerOperation(s2, o, left, right)
        ELSE IF Type(left) = "STRING" /\ Type(right) = "STRING"
             THEN executeBinaryStringOperation(s2, o, left, right)
        ELSE Fail(s2, Errorf("unsupported types for binary operation: %s %s",
                             <<Type(right), Type(left)>>))

executeBinaryOperation(s, o) ==
    LET right == Top(s)
        s1 == pop(s)
        left == Top(s1)
        s2 == pop(s1)
    IN  IF ~Running(s2) THEN s2
        ELSE IF left = Nil \/ right = Nil THEN Panic(s2)      \* nil.Type()
        ELSE IF Type(left) = "INTEGER" /\ Type(right) = "INTEGER"
             THEN executeBinaryIntegerOperation(s2, o, left, right)
        ELSE IF Type(left) = "STRING" /\ Type(right) = "STRING"
             THEN executeBinaryStringOperation(s2, o, left, right)
        ELSE Fail(s2, Errorf("unsupported types for binary operation: %s %s",
                             <<Type(left), Type(right)>>))

executeIntegerComparison(s, o, left, right) ==
    IF o = OpEqual THEN push(s, nativeBoolToBooleanObject(left.ival = right.ival))
    ELSE IF o = OpNotEqual THEN push(s, nativeBoolToBooleanObject(left.ival # right.ival))
    ELSE IF o = OpGreaterThan THEN push(s, nativeBoolToBooleanObject(left.ival > right.ival))
    ELSE Fail(s, Errorf("unknown binary integer comparison operator: %d", <<o>>))

executeBooleanComparison(s, o, left, right) ==
    IF o = OpEqual THEN push(s, nativeBoolToBooleanObject(left.bval = right.bval))
    ELSE IF o = OpNotEqual THEN push(s, nativeBoolToBooleanObject(left.bval # right.bval))
    ELSE Fail(s, Errorf("unknown binary boolean comparison operator: %d", <<o>>))

\* a faulty variant of executeComparison: NULL is compared with NULL by identity
executeComparisonOfNulls(s, o) ==
    LET right == Top(s)
        s1 == pop(s)
        left == Top(s1)
        s2 == pop(s1)
    IN  IF ~Running(s2) THEN s2
        ELSE IF left = Nil \/ right = Nil THEN Panic(s2)
        ELSE IF Type(left) = "INTEGER" /\ Type(right) = "INTEGER"
             THEN executeIntegerComparison(s2, o, left, right)
        ELSE IF Type(left) = "BOOLEAN" /\ Type(right) = "BOOLEAN"
             THEN executeBooleanComparison(s2, o, left, right)
        ELSE IF Type(left) = "NULL" /\ Type(right) = "NULL" /\ o # OpGreaterThan
             THEN push(s2, nativeBoolToBooleanObject(o = OpEqual))
        ELSE Fail(s2, Errorf("unsupported types for binary comparison: %s %s",
                             <<Type(left), Type(right)>>))

executeComparison(s, o) ==
    LET right == Top(s)
        s1 == pop(s)
        left == Top(s1)
        s2 == pop(s1)
    IN  IF ~Running(s2) THEN s2
        ELSE IF left = Nil \/ right = Nil THEN Panic(s2)      \* nil.Type()
        ELSE IF Type(left) = "INTEGER" /\ Type(right) = "INTEGER"
             THEN executeIntegerComparison(s2, o, left, right)
        ELSE IF Type(left) = "BOOLEAN" /\ Type(right) = "BOOLEAN"
             THEN executeBooleanComparison(s2, o, left, right)
        ELSE Fail(s2, Errorf("unsupported types for binary comparison: %s %s",
                             <<Type(left), Type(right)>>))

executeMinusOperator(s) ==
    LET operand == Top(s)
        s1 == pop(s)
    IN  IF ~Running(s1) THEN s1
        ELSE IF operand = Nil THEN Panic(s1)                  \* nil.Type()
        ELSE IF Type(operand) # "INTEGER"
             THEN Fail(s1, Errorf("unsupported type for negation: %s", <<Type(operand)>>))
        ELSE push(s1, Integer(-operand.ival))

\* a faulty variant of executeBangOperator: NULL is negated like a truthy value
executeBangOperatorNullToFalse(s) ==
    LET operand == Top(s)
        s1 == pop(s)
    IN  IF ~Running(s1) THEN s1
        ELSE IF operand = True THEN push(s1, False)
        ELSE IF operand = False THEN push(s1, True)
        ELSE push(s1, False)

executeBangOperator(s) ==
    LET operand == Top(s)
        s1 == pop(s)
    IN  IF ~Running(s1) THEN s1
        ELSE IF operand = True THEN push(s1, False)
        ELSE IF operand = False THEN push(s1, True)
        ELSE IF operand = Null THEN push(s1, True)
        ELSE push(s1, False)

(* buildArray reads stack[startIndex .. endIndex-1]; an index outside the
   slab panics *)
SliceOk(startIndex, endIndex) ==
    startIndex >= endIndex \/ (startIndex >= 0 /\ endIndex <= StackSize)

buildArray(s, startIndex, endIndex) ==
    Array([i \in 1..(endIndex - startIndex) |-> StackAt(s.stack, startIndex + i - 1)])

(* buildHashMap: pairs in order from startIndex; the first key that is not
   Hashable ends it with an error.  Result: [kind, kv, e]. *)
RECURSIVE buildHashMapFrom(_, _, _, _)
buildHashMapFrom(s, i, endIndex, kvPairs) ==
    IF i >= endIndex THEN [kind |-> "ok", kv |-> kvPairs, e |-> NoErr]
    ELSE IF i < 0 \/ i + 1 >= StackSize THEN [kind |-> "panic", kv |-> kvPairs, e |-> NoErr]
    ELSE LET key == StackAt(s.stack, i)
             value == StackAt(s.stack, i + 1)
         IN  IF key = Nil THEN [kind |-> "panic", kv |-> kvPairs, e |-> NoErr]   \* nil.Type()
             ELSE IF ~IsHashable(key)
                  THEN [kind |-> "err", kv |-> kvPairs,
                        e |-> Errorf("unusable as hash key: %s", <<Type(key)>>)]
             ELSE buildHashMapFrom(s, i + 2, endIndex,
                      [k \in (DOMAIN kvPairs) \cup {HashKey(key)} |->
                          IF k = HashKey(key) THEN [key |-> key, value |-> value]
                          ELSE kvPairs[k]])

buildHashMap(s, startIndex, endIndex) == buildHashMapFrom(s, startIndex, endIndex, <<>>)

executeArrayIndex(s, array, index) ==
    LET i == index.ival
        max == Len(array.elements) - 1
    IN  IF i < 0 \/ i > max THEN push(s, Null)
        ELSE push(s, At(array.elements, i))

executeHashMapIndex(s, hashmap, index) ==
    IF index = Nil THEN Panic(s)                              \* nil.Type()
    ELSE IF ~IsHashable(index)
         THEN Fail(s, Errorf("unusable as hash key: %s", <<Type(index)>>))
    ELSE IF HashKey(index) \notin DOMAIN hashmap.kvPairs THEN push(s, Null)
    ELSE push(s, hashmap.kvPairs[HashKey(index)].value)

executeIndexExpression(s, left, index) ==
    IF ~Running(s) THEN s
    ELSE IF left = Nil THEN Panic(s)                          \* nil.Type()
    ELSE IF Type(left) = "ARRAY" /\ index = Nil THEN Panic(s) \* nil.Type()
    ELSE IF Type(left) = "ARRAY" /\ Type(index) = "INTEGER"
         THEN executeArrayIndex(s, left, index)
    ELSE IF Type(left) = "HASHMAP" THEN executeHashMapIndex(s, left, index)
    ELSE Fail(s, Errorf("index operator not supported: %s", <<Type(left)>>))

pushClosure(s, constIndex) ==
    IF ~Running(s) THEN s
    ELSE IF ~InRange(prog.constants, constIndex) THEN Panic(s)
    ELSE IF Type(At(prog.constants, constIndex)) # "COMPILED_FUNCTION"
         THEN Fail(s, Errorf("not a function: %+v", <<"nil">>))
    ELSE push(s, Closure(constIndex))

----------------------------------------------------------------------------
(* The built-ins table (object.BuiltIns) and its native functions: len and
   puts of the language.  A native function returns a value, or Nil for
   "no value". *)
BuiltIns == <<"len", "puts">>

BuiltInFn(name, args) ==
    IF name = "len"
    THEN IF Len(args) # 1
         THEN Error(<<"wrong number of arguments. got=%d, want=1", Len(args)>>)
         ELSE IF args[1].type = "STRING" THEN Integer(Len(args[1].sval))
         ELSE IF args[1].type = "ARRAY" THEN Integer(Len(args[1].elements))
         ELSE Error(<<"argument to len not supported, got %s", args[1].type>>)
    ELSE Nil

\* a faulty variant of callClosure: the number of arguments is not compared
callClosureAnyArity(s, cl, numArgs) ==
    LET frame == NewFrame(cl, s.sp - numArgs)
        s1 == pushFrame(s, frame)
    IN  IF ~Running(s1) THEN s1
        ELSE [s1 EXCEPT !.sp = frame.basePointer + FnOf(cl).numLocals]

callClosure(s, cl, numArgs) ==
    IF numArgs # FnOf(cl).numParameters
    THEN Fail(s, Errorf("wrong number of arguments: expected=%d, got=%d",
                        <<FnOf(cl).numParameters, numArgs>>))
    ELSE LET frame == NewFrame(cl, s.sp - numArgs)
             s1 == pushFrame(s, frame)
         IN  IF ~Running(s1) THEN s1
             ELSE [s1 EXCEPT !.sp = frame.basePointer + FnOf(cl).numLocals]

\* a faulty variant of callBuiltIn: sp is reset above the built-in, which stays on
\* the stack under the result
callBuiltInKeepsCallee(s, builtin, numArgs) ==
    IF s.sp - numArgs < 0 \/ s.sp > StackSize THEN Panic(s)
    ELSE LET args == [i \in 1..numArgs |-> StackAt(s.stack, s.sp - numArgs + i - 1)]
             result == BuiltInFn(builtin.name, args)
             s1 == [s EXCEPT !.sp = s.sp - numArgs,
                             !.native = builtin.name, !.passed = args]
             s2 == IF result # Nil THEN push(s1, result) ELSE push(s1, Null)
         IN  [s2 EXCEPT !.ret = NoErr]

callBuiltIn(s, builtin, numArgs) ==
    IF s.sp - numArgs < 0 \/ s.sp > StackSize THEN Panic(s)   \* stack[sp-numArgs : sp]
    ELSE LET args == [i \in 1..numArgs |-> StackAt(s.stack, s.sp - numArgs + i - 1)]
             result == BuiltInFn(builtin.name, args)
             s1 == [s EXCEPT !.sp = s.sp - numArgs - 1,
                             !.native = builtin.name, !.passed = args]
             s2 == IF result # Nil THEN push(s1, result) ELSE push(s1, Null)
         IN  [s2 EXCEPT !.ret = NoErr]                        \* the error of push is dropped

executeCall(s, numArgs) ==
    IF ~Running(s) THEN s
    ELSE IF s.sp - 1 - numArgs < 0 \/ s.sp - 1 - numArgs >= StackSize THEN Panic(s)
    ELSE LET callee == StackAt(s.stack, s.sp - 1 - numArgs)
         IN  IF Type(callee) = "CLOSURE" THEN callClosure(s, callee, numArgs)
             ELSE IF Type(callee) = "BUILTIN" THEN callBuiltIn(s, callee, numArgs)
             ELSE Fail(s, Errorf("attempted to call non-closure and non-builtin", <<>>))

----------------------------------------------------------------------------
(* VM.Run: the dispatch loop.  One action is one iteration of the loop (the
   loop test, the pre-increment, the decode and the whole case of the
   switch), or the exit of the loop. *)

\* a faulty variant of LoopCond: the loop stops one byte early
LoopCondEarlyExit == currentFrame(S).ip < Len(Instructions(currentFrame(S))) - 2

LoopCond == currentFrame(S).ip < Len(Instructions(currentFrame(S))) - 1

ip == currentFrame(S).ip + 1                   \* ip, after `vm.currentFrame().ip += 1`
instr == Instructions(currentFrame(S))
op == At(instr, ip)

Begin == AddIp(S, 1)

OperandBytes == SubSeq(instr, ip + 2, Len(instr))     \* instr[ip+1:]
HasUint16 == Len(OperandBytes) >= 2
HasUint8 == Len(OperandBytes) >= 1

NoCall ==
    [d |-> -1, argc |-> -1, depth |-> -1, ip |-> -1, args |-> <<>>,
     tracked |-> FALSE, below |-> <<>>, low |-> -1]

Min(a, b) == IF a <= b THEN a ELSE b

(* History of the live calls after an instruction: low is the lowest value sp
   and the current frame's base pointer have had at an instruction boundary
   since the call was entered *)
Lowered(c, s) ==
    IF s.status # "running" \/ s.framesIndex < 1 THEN c
    ELSE [i \in 1..Len(c) |->
            [c[i] EXCEPT !.low = Min(@, Min(s.sp, currentFrame(s).basePointer))]]

Last ==
    [op |-> op, ip |-> ip, depth |-> framesIndex, sp |-> sp, operand |-> -1,
     jumped |-> FALSE, popped |-> Nil, call |-> NoCall,
     raised |-> NoErr, pushSp |-> -1, frameAt |-> -1, native |-> "", passed |-> <<>>]

Fetch(o) == status = "running" /\ LoopCond /\ op = o

(* The state an iteration leaves behind; r is the VM after the handler *)
Commit(s, l, c) ==
    \E r \in {s} :
        /\ stack' = r.stack
        /\ sp' = r.sp
        /\ globals' = r.globals
        /\ frames' = r.frames
        /\ framesIndex' = r.framesIndex
        /\ status' = r.status
        /\ err' = r.err
        /\ last' = [l EXCEPT !.raised = r.raised, !.pushSp = r.pushSp,
                             !.frameAt = r.frameAt, !.native = r.native,
                             !.passed = r.passed]
        /\ prev' = last
        /\ calls' = Lowered(c, r)
        /\ prog' = prog
        /\ vms' = vms
        /\ sets' = r.stored
        /\ iterations' = Min(iterations + 1, Len(prog.instructions) + 1)

PushStep(obj) == Commit(ReturnErr(push(Begin, obj)), Last, calls)

OpConstantStep ==
    /\ Fetch(OpConstant)
    /\ IF ~HasUint16 THEN Commit(Panic(Begin), Last, calls)
       ELSE LET constIndex == ReadUint16(OperandBytes)
                s1 == AddIp(Begin, 2)
                s2 == IF ~InRange(prog.constants, constIndex) THEN Panic(s1)
                      ELSE push(s1, At(prog.constants, constIndex))
            IN  Commit(ReturnErr(s2), [Last EXCEPT !.operand = constIndex], calls)

OpTrueStep == Fetch(OpTrue) /\ PushStep(True)

OpFalseStep == Fetch(OpFalse) /\ PushStep(False)

OpNullStep == Fetch(OpNull) /\ PushStep(Null)

OpPopStep ==
    /\ Fetch(OpPop)
    /\ LET s1 == pop(Begin)
       IN  Commit(s1, [Last EXCEPT !.popped = IF Running(s1) THEN Top(Begin) ELSE Nil], calls)

OpJumpNotTruthyStep ==
    /\ Fetch(OpJumpNotTruthy)
    /\ IF ~HasUint16 THEN Commit(Panic(Begin), Last, calls)
       ELSE LET jumpToPos == ReadUint16(OperandBytes)
                s1 == AddIp(Begin, 2)
                condition == Top(s1)
                s2 == pop(s1)
                jump == Running(s2) /\ ~isTruthy(condition)
                s3 == IF jump THEN SetIp(s2, jumpToPos - 1) ELSE s2
            IN  Commit(s3, [Last EXCEPT !.operand = jumpToPos, !.jumped = jump,
                                        !.popped = IF Running(s2) THEN condition ELSE Nil],
                       calls)

\* a faulty variant of OpJumpStep: ip is left on the jump, which the loop decodes again
OpJumpStepInPlace ==
    /\ Fetch(OpJump)
    /\ IF ~HasUint16 THEN Commit(Panic(Begin), Last, calls)
       ELSE LET jumpToPos == ReadUint16(OperandBytes)
            IN  Commit(SetIp(Begin, ip - 1),
                       [Last EXCEPT !.operand = jumpToPos, !.jumped = TRUE], calls)

OpJumpStep ==
    /\ Fetch(OpJump)
    /\ IF ~HasUint16 THEN Commit(Panic(Begin), Last, calls)
       ELSE LET jumpToPos == ReadUint16(OperandBytes)
            IN  Commit(SetIp(Begin, jumpToPos - 1),
                       [Last EXCEPT !.operand = jumpToPos, !.jumped = TRUE], calls)

OpArithmeticStep ==
    /\ status = "running" /\ LoopCond /\ op \in {OpAdd, OpSub, OpMul, OpDiv}
    /\ Commit(ReturnErr(executeBinaryOperation(Begin, op)), Last, calls)

OpComparisonStep ==
    /\ status = "running" /\ LoopCond /\ op \in {OpEqual, OpNotEqual, OpGreaterThan}
    /\ Commit(ReturnErr(executeComparison(Begin, op)), Last, calls)

OpMinusStep ==
    /\ Fetch(OpMinus)
    /\ Commit(ReturnErr(executeMinusOperator(Begin)), Last, calls)

OpBangStep ==
    /\ Fetch(OpBang)
    /\ Commit(ReturnErr(executeBangOperator(Begin)),
              [Last EXCEPT !.popped = IF Running(pop(Begin)) THEN Top(Begin) ELSE Nil], calls)

OpGetGlobalStep ==
    /\ Fetch(OpGetGlobal)
    /\ IF ~HasUint16 THEN Commit(Panic(Begin), Last, calls)
       ELSE LET globalIndex == ReadUint16(OperandBytes)
                s1 == AddIp(Begin, 2)
                s2 == IF globalIndex >= GlobalsSize THEN Panic(s1)
                      ELSE push(s1, GlobalAt(s1.globals, globalIndex))
            IN  Commit(ReturnErr(s2), [Last EXCEPT !.operand = globalIndex], calls)

OpSetGlobalStep ==
    /\ Fetch(OpSetGlobal)
    /\ IF ~HasUint16 THEN Commit(Panic(Begin), Last, calls)
       ELSE LET globalIndex == ReadUint16(OperandBytes)
                s1 == AddIp(Begin, 2)
                v == Top(s1)
                s2 == pop(s1)
                s3 == IF ~Running(s2) THEN s2
                      ELSE IF globalIndex >= GlobalsSize THEN Panic(s2)
                      ELSE [s2 EXCEPT !.globals = SetGlobalAt(s2.globals, globalIndex, v),
                                      !.stored = [j \in (DOMAIN s2.stored) \cup {globalIndex} |->
                                                    IF j = globalIndex THEN v ELSE s2.stored[j]]]
            IN  Commit(s3, [Last EXCEPT !.operand = globalIndex,
                                        !.popped = IF Running(s2) THEN v ELSE Nil], calls)

OpGetLocalStep ==
    /\ Fetch(OpGetLocal)
    /\ IF ~HasUint8 THEN Commit(Panic(Begin), Last, calls)
       ELSE LET localIndex == ReadUint8(OperandBytes)
                s1 == AddIp(Begin, 1)
                frame == currentFrame(s1)
                s2 == IF frame.basePointer + localIndex >= StackSize THEN Panic(s1)
                      ELSE push(s1, StackAt(s1.stack, frame.basePointer + localIndex))
            IN  Commit(ReturnErr(s2), [Last EXCEPT !.operand = localIndex], calls)

\* a faulty variant of OpSetLocalStep: the slot is addressed without the frame's
\* base pointer
OpSetLocalStepNoBase ==
    /\ Fetch(OpSetLocal)
    /\ IF ~HasUint8 THEN Commit(Panic(Begin), Last, calls)
       ELSE LET localIndex == ReadUint8(OperandBytes)
                s1 == AddIp(Begin, 1)
                v == Top(s1)
                s2 == pop(s1)
                s3 == IF ~Running(s2) THEN s2
                      ELSE [s2 EXCEPT !.stack = WriteAt(s2.stack, localIndex, v, Nil)]
            IN  Commit(s3, [Last EXCEPT !.operand = localIndex,
                                        !.popped = IF Running(s2) THEN v ELSE Nil], calls)

OpSetLocalStep ==
    /\ Fetch(OpSetLocal)
    /\ IF ~HasUint8 THEN Commit(Panic(Begin), Last, calls)
       ELSE LET localIndex == ReadUint8(OperandBytes)
                s1 == AddIp(Begin, 1)
                frame == currentFrame(s1)
                v == Top(s1)
                s2 == pop(s1)
                s3 == IF ~Running(s2) THEN s2
                      ELSE IF frame.basePointer + localIndex >= StackSize THEN Panic(s2)
                      ELSE [s2 EXCEPT !.stack = WriteAt(s2.stack, frame.basePointer + localIndex, v, Nil)]
            IN  Commit(s3, [Last EXCEPT !.operand = localIndex,
                                        !.popped = IF Running(s2) THEN v ELSE Nil], calls)

OpArrayStep ==
    /\ Fetch(OpArray)
    /\ IF ~HasUint16 THEN Commit(Panic(Begin), Last, calls)
       ELSE LET numElements == ReadUint16(OperandBytes)
                s1 == AddIp(Begin, 2)
                s2 == IF ~SliceOk(s1.sp - numElements, s1.sp) THEN Panic(s1)
                      ELSE push([s1 EXCEPT !.sp = s1.sp - numElements],
                                buildArray(s1, s1.sp - numElements, s1.sp))
            IN  Commit(ReturnErr(s2), [Last EXCEPT !.operand = numElements], calls)

OpHashMapStep ==
    /\ Fetch(OpHashMap)
    /\ IF ~HasUint16 THEN Commit(Panic(Begin), Last, calls)
       ELSE LET numElements == ReadUint16(OperandBytes)
                s1 == AddIp(Begin, 2)
                built == buildHashMap(s1, s1.sp - numElements, s1.sp)
                s2 == IF built.kind = "panic" THEN Panic(s1)
                      ELSE IF built.kind = "err" THEN Fail(s1, built.e)
                      ELSE push([s1 EXCEPT !.sp = s1.sp - numElements], HashMap(built.kv))
            IN  Commit(ReturnErr(s2), [Last EXCEPT !.operand = numElements], calls)

OpIndexStep ==
    /\ Fetch(OpIndex)
    /\ LET index == Top(Begin)
           s1 == pop(Begin)
           left == Top(s1)
           s2 == pop(s1)
       IN  Commit(ReturnErr(executeIndexExpression(s2, left, index)), Last, calls)

OpCallStep ==
    /\ Fetch(OpCall)
    /\ IF ~HasUint8 THEN Commit(Panic(Begin), Last, calls)
       ELSE LET numArgs == ReadUint8(OperandBytes)
                s1 == AddIp(Begin, 1)
                s2 == ReturnErr(executeCall(s1, numArgs))
                entered == s2.status = "running" /\ s2.framesIndex = framesIndex + 1
            IN  Commit(s2, [Last EXCEPT !.operand = numArgs],
                       IF entered
                       THEN Append(calls, [d |-> sp, argc |-> numArgs,
                                           depth |-> framesIndex, ip |-> ip + 1,
                                           args |-> [i \in 1..numArgs |->
                                                       StackAt(stack, sp - numArgs + i - 1)],
                                           tracked |-> framesIndex <= MaxTracked,
                                           below |-> IF framesIndex <= MaxTracked
                                                     THEN [k \in 1..(sp - numArgs - 1) |->
                                                             StackAt(stack, k - 1)]
                                                     ELSE <<>>,
                                           low |-> sp - numArgs])
                       ELSE calls)

\* a faulty variant of ReturnWith: sp is reset one slot too low, below the callee
ReturnWithDropsSlot(s, returnValue) ==
    LET frame == PoppedFrame(s)
        s1 == popFrame(s)
        s2 == IF ~Running(s1) THEN s1 ELSE [s1 EXCEPT !.sp = frame.basePointer - 2]
    IN  push(s2, returnValue)

(* OpReturnValue and OpReturn: pop the frame, reset sp below the callee, push
   the result *)
ReturnWith(s, returnValue) ==
    LET frame == PoppedFrame(s)
        s1 == popFrame(s)
        s2 == IF ~Running(s1) THEN s1 ELSE [s1 EXCEPT !.sp = frame.basePointer - 1]
    IN  push(s2, returnValue)

OpReturnValueStep ==
    /\ Fetch(OpReturnValue)
    /\ LET returnValue == Top(Begin)
           s1 == pop(Begin)
           s2 == ReturnErr(ReturnWith(s1, returnValue))
           matched == Running(s1) /\ calls # <<>>
       IN  Commit(s2,
                  [Last EXCEPT !.popped = IF Running(s1) THEN returnValue ELSE Nil,
                               !.call = IF matched THEN calls[Len(calls)] ELSE NoCall],
                  IF matched THEN SubSeq(calls, 1, Len(calls) - 1) ELSE calls)

OpReturnStep ==
    /\ Fetch(OpReturn)
    /\ LET s2 == ReturnErr(ReturnWith(Begin, Null))
           matched == calls # <<>>
       IN  Commit(s2,
                  [Last EXCEPT !.call = IF matched THEN calls[Len(calls)] ELSE NoCall],
                  IF matched THEN SubSeq(calls, 1, Len(calls) - 1) ELSE calls)

OpGetBuiltInStep ==
    /\ Fetch(OpGetBuiltIn)
    /\ IF ~HasUint8 THEN Commit(Panic(Begin), Last, calls)
       ELSE LET builtInIndex == ReadUint8(OperandBytes)
                s1 == AddIp(Begin, 1)
                s2 == IF ~InRange(BuiltIns, builtInIndex) THEN Panic(s1)
                      ELSE push(s1, BuiltIn(At(BuiltIns, builtInIndex)))
            IN  Commit(ReturnErr(s2), [Last EXCEPT !.operand = builtInIndex], calls)

OpClosureStep ==
    /\ Fetch(OpClosure)
    /\ IF ~HasUint16 THEN Commit(Panic(Begin), Last, calls)
       ELSE LET constIndex == ReadUint16(OperandBytes)
                s1 == AddIp(Begin, 3)
            IN  Commit(ReturnErr(pushClosure(s1, constIndex)),
                       [Last EXCEPT !.operand = constIndex], calls)

InvalidOpcodeStep ==
    /\ status = "running" /\ LoopCond /\ op \notin KnownOpcodes
    /\ Commit(ReturnErr(Fail(Begin, Errorf("invalid opcode received: %d", <<op>>))),
              Last, calls)

(* The loop test fails: `return nil` *)
RunReturnsNil ==
    /\ status = "running" /\ ~LoopCond
    /\ status' = "ok"
    /\ UNCHANGED <<prog, stack, sp, globals, frames, framesIndex, err, last, prev, calls,
                   vms, sets, iterations>>

----------------------------------------------------------------------------
(* The programs the machine is run on.  All share one constant pool: the
   integers 0..MaxInt, three strings, then the compiled functions. *)

Ins(o) == <<o>>
Ins16(o, n) == <<o>> \o U16(n)                 \* bytecode.Make(o, n), 2-byte operand
Ins8(o, n) == <<o>> \o U8(n)                   \* bytecode.Make(o, n), 1-byte operand
InsClosure(c, free) == <<OpClosure>> \o U16(c) \o U8(free)

IntConst(n) == n
StrConst(k) == MaxInt + 1 + k
FnConst(k) == MaxInt + 4 + k

FnOne == FnConst(0)            \* fn() { 1 }
FnEmpty == FnConst(1)          \* fn() { }
FnAdd == FnConst(2)            \* fn(a, b) { let c = a + b; c }
FnIdentity == FnConst(3)       \* fn(a) { a }
FnOuter == FnConst(4)          \* fn(a) { 1 + one() + a }, one the global 1
FnNoReturn == FnConst(5)       \* a function body with no return instruction
FnJumpOut == FnConst(6)        \* a function body that jumps to its own end
FnManyLocals == FnConst(7)     \* a function that declares StackSize + 1 locals
FnSelfCall == FnConst(8)       \* a function body that is one OpCall: it calls the
                               \* closure its own call left on top of the stack
FnManyLocalsQuiet == FnConst(9) \* StackSize + 1 locals and a body that is one OpReturn
FnRec(nl) == FnConst(10 + nl)  \* let f = fn() { let x1..xnl; f() }, f the global 0
FnUnderflows == FnConst(12 + MaxNumLocals)
                               \* a function body that pops its own closure and the value
                               \* below it, then pushes two values and returns
FnFillsStack == FnConst(11 + MaxNumLocals)
                               \* StackSize - 2 locals and a body that pushes one value:
                               \* called from the top level it fills the last slot
FnLoops == FnConst(13 + MaxNumLocals)
                               \* a function body that pushes, pops and jumps back to
                               \* its start

Functions ==
    << CompiledFunction(Ins16(OpConstant, IntConst(1)) \o Ins(OpReturnValue), 0, 0),
       CompiledFunction(Ins(OpReturn), 0, 0),
       CompiledFunction(Ins8(OpGetLocal, 0) \o Ins8(OpGetLocal, 1) \o Ins(OpAdd)
                        \o Ins8(OpSetLocal, 2) \o Ins8(OpGetLocal, 2)
                        \o Ins(OpReturnValue), 3, 2),
       CompiledFunction(Ins8(OpGetLocal, 0) \o Ins(OpReturnValue), 1, 1),
       CompiledFunction(Ins16(OpConstant, IntConst(1)) \o Ins16(OpGetGlobal, 1)
                        \o Ins8(OpCall, 0) \o Ins(OpAdd) \o Ins8(OpGetLocal, 0)
                        \o Ins(OpAdd) \o Ins(OpReturnValue), 1, 1),
       CompiledFunction(Ins16(OpConstant, IntConst(1)), 0, 0),
       CompiledFunction(Ins16(OpJump, 3), 0, 0),
       CompiledFunction(Ins16(OpConstant, IntConst(1)) \o Ins(OpReturnValue),
                        StackSize + 1, 0),
       CompiledFunction(Ins8(OpCall, 0), 0, 0),
       CompiledFunction(Ins(OpReturn), StackSize + 1, 0) >>
    \o [nl \in 1..(MaxNumLocals + 1) |->
          CompiledFunction(Ins16(OpGetGlobal, 0) \o Ins8(OpCall, 0) \o Ins(OpReturnValue),
                           nl - 1, 0)]
    \o << CompiledFunction(Ins16(OpConstant, IntConst(1)) \o Ins(OpPop)
                            \o Ins16(OpConstant, IntConst(2)) \o Ins(OpReturnValue),
                            StackSize - 2, 0),
         CompiledFunction(Ins(OpPop) \o Ins(OpPop) \o Ins(OpTrue) \o Ins(OpTrue)
                            \o Ins(OpReturn), 0, 0),
         CompiledFunction(Ins(OpNull) \o Ins(OpPop) \o Ins16(OpJump, 0), 0, 0) >>

Constants ==
    [n \in 1..(MaxInt + 1) |-> Integer(n - 1)]
    \o <<String(<<>>), String(<<"a">>), String(<<"b">>)>>
    \o Functions

(* Code that pushes one value *)
Ints == {Ins16(OpConstant, IntConst(n)) : n \in 0..MaxInt}
Literals ==
    Ints \cup
    { Ins16(OpConstant, StrConst(0)), Ins16(OpConstant, StrConst(1)),
      Ins16(OpConstant, StrConst(2)),
      Ins(OpTrue), Ins(OpFalse), Ins(OpNull),
      Ins16(OpArray, 0), Ins16(OpHashMap, 0),
      Ins16(OpConstant, IntConst(1)) \o Ins16(OpArray, 1) }
FewLiterals == {Ins16(OpConstant, IntConst(1)), Ins(OpTrue), Ins16(OpConstant, StrConst(1))}
Unset == Ins16(OpGetGlobal, 9)                 \* reads a global never set: nil

GlobalIndexes == {0, 1, 255, 256, GlobalsSize - 1}

(* if (a) { 1 } else { 2 };   and   if (a) { 1 };  as the compiler lays them out *)
IfElse(a, alt) ==
    LET elsePos == Len(a) + 3 + 3 + 3
        endPos == elsePos + Len(alt)
    IN  a \o Ins16(OpJumpNotTruthy, elsePos) \o Ins16(OpConstant, IntConst(1))
          \o Ins16(OpJump, endPos) \o alt \o Ins(OpPop)

ExpressionPrograms ==
    {a \o Ins(OpPop) : a \in Literals}
    \cup {a \o b \o Ins(o) \o Ins(OpPop) :
            a \in Literals, b \in Literals,
            o \in {OpAdd, OpSub, OpMul, OpDiv, OpEqual, OpNotEqual, OpGreaterThan}}
    \cup {a \o Ins(o) \o Ins(OpPop) : a \in Literals, o \in {OpMinus, OpBang}}
    \cup {a \o Ins(OpBang) \o Ins(OpBang) \o Ins(OpPop) : a \in Literals}
    \cup {a \o Ins(OpMinus) \o b \o Ins(OpDiv) \o Ins(OpPop) : a \in Ints, b \in Ints}
    \* "a" + "b" - "b"
    \cup {Ins16(OpConstant, StrConst(1)) \o Ins16(OpConstant, StrConst(2)) \o Ins(OpAdd)
            \o Ins16(OpConstant, StrConst(2)) \o Ins(OpSub) \o Ins(OpPop)}

JumpPrograms ==
    {IfElse(a, Ins16(OpConstant, IntConst(2))) : a \in Literals \cup {Unset}}
    \cup {IfElse(a, Ins(OpNull)) : a \in Literals}
    \cup {a \o Ins16(OpJumpNotTruthy, Len(a) + 3) : a \in Literals}
    \cup {Ins16(OpJump, 3), Ins16(OpJump, 4) \o Ins(OpInvalid) \o Ins(OpTrue)}

GlobalPrograms ==
    {a \o Ins16(OpSetGlobal, j) \o b \o Ins16(OpSetGlobal, i) \o Ins16(OpGetGlobal, i)
       \o Ins(OpPop) \o Ins16(OpGetGlobal, j) \o Ins(OpPop) :
         a \in FewLiterals, b \in FewLiterals, i \in GlobalIndexes, j \in GlobalIndexes}
    \cup {c \o a \o Ins16(OpSetGlobal, i) \o Ins16(OpGetGlobal, i) \o Ins(OpAdd) \o Ins(OpPop) :
            c \in Ints, a \in Literals \cup {Unset}, i \in GlobalIndexes}

CollectionPrograms ==
    {a \o b \o Ins16(OpArray, 2) \o k \o Ins(OpIndex) \o Ins(OpPop) :
        a \in FewLiterals, b \in FewLiterals, k \in Literals}
    \cup {a \o b \o Ins16(OpArray, 2) \o k \o Ins(OpMinus) \o Ins(OpIndex) \o Ins(OpPop) :
            a \in FewLiterals, b \in FewLiterals, k \in Ints}
    \cup {k1 \o a \o k2 \o b \o Ins16(OpHashMap, 4) \o k \o Ins(OpIndex) \o Ins(OpPop) :
            k1 \in Literals, k2 \in FewLiterals, a \in {Ins(OpTrue)}, b \in {Ins(OpFalse)},
            k \in Literals}
    \cup {a \o k \o Ins(OpIndex) \o Ins(OpPop) : a \in Literals \cup {Unset}, k \in FewLiterals}
    \cup {Unset \o a \o Ins16(OpHashMap, 2) : a \in FewLiterals}
    \cup {a \o Ins16(OpHashMap, 1) : a \in FewLiterals}
    \cup {Ins16(OpArray, 1)}

CallPrograms ==
    {  \* one(); and fn() { }();
       InsClosure(FnOne, 0) \o Ins8(OpCall, 0) \o Ins(OpPop),
       InsClosure(FnEmpty, 0) \o Ins8(OpCall, 0) \o Ins(OpPop),
       \* let one = fn() { 1 }; let outer = fn(a) { 1 + one() + a }; 2 + outer(2)
       InsClosure(FnOne, 0) \o Ins16(OpSetGlobal, 1) \o InsClosure(FnOuter, 0)
         \o Ins16(OpSetGlobal, 2) \o Ins16(OpConstant, IntConst(2)) \o Ins16(OpGetGlobal, 2)
         \o Ins16(OpConstant, IntConst(2)) \o Ins8(OpCall, 1) \o Ins(OpAdd) \o Ins(OpPop),
       \* calling what is no function, a constant that is no function, a built-in
       \* index outside the table
       Ins16(OpConstant, IntConst(1)) \o Ins8(OpCall, 0) \o Ins(OpPop),
       Unset \o Ins8(OpCall, 0) \o Ins(OpPop),
       InsClosure(IntConst(0), 0) \o Ins(OpPop),
       InsClosure(Len(Constants), 0) \o Ins(OpPop),
       Ins16(OpConstant, Len(Constants)),
       Ins8(OpGetBuiltIn, Len(BuiltIns)),
       Ins8(OpCall, 0), Ins8(OpGetLocal, 0), Ins8(OpSetLocal, 0),
       \* return at the top level, a function that ends without a return
       Ins16(OpConstant, IntConst(1)) \o Ins(OpReturnValue),
       Ins(OpReturn),
       Ins(OpReturnValue),
       InsClosure(FnNoReturn, 0) \o Ins8(OpCall, 0) \o Ins(OpPop),
       InsClosure(FnJumpOut, 0) \o Ins8(OpCall, 0) \o Ins(OpPop),
       InsClosure(FnManyLocals, 0) \o Ins8(OpCall, 0) \o Ins(OpPop),
       InsClosure(FnSelfCall, 0) \o Ins8(OpCall, 0) \o Ins(OpPop),
       InsClosure(FnManyLocalsQuiet, 0) \o Ins8(OpCall, 0) \o Ins(OpPop),
       InsClosure(FnFillsStack, 0) \o Ins8(OpCall, 0) \o Ins(OpPop),
       Ins16(OpConstant, IntConst(2)) \o InsClosure(FnUnderflows, 0) \o Ins8(OpCall, 0)
         \o Ins(OpPop),
       \* [0, 1][add(1, 2)] with the array elements still on the stack
       Ins16(OpConstant, IntConst(0)) \o Ins16(OpConstant, IntConst(1))
         \o Ins16(OpConstant, IntConst(2)) \o InsClosure(FnAdd, 0)
         \o Ins16(OpConstant, IntConst(1)) \o Ins16(OpConstant, IntConst(2))
         \o Ins8(OpCall, 2) \o Ins(OpPop),
       \* damaged streams
       <<>>, Ins(OpPop), Ins(OpInvalid), Ins(OpTrue) \o Ins(OpInvalid),
       <<OpConstant, 0>>, <<OpJump>>, <<OpJumpNotTruthy, 0>>, <<OpGetGlobal>>,
       <<OpSetGlobal, 0>>, <<OpGetLocal>>, <<OpSetLocal>>, <<OpArray>>, <<OpHashMap, 0>>,
       <<OpCall>>, <<OpGetBuiltIn>>, <<OpClosure, 0>>,
       \* while (true) { push }: the stack fills up
       Ins(OpTrue) \o Ins16(OpJump, 0) }
    \cup {InsClosure(FnAdd, 0) \o a \o b \o Ins8(OpCall, 2) \o Ins(OpPop) :
            a \in Literals, b \in FewLiterals}
    \cup {c \o InsClosure(FnIdentity, 0) \o a \o Ins8(OpCall, 1) \o Ins(OpAdd) \o Ins(OpPop) :
            c \in Ints, a \in Literals}
    \cup {InsClosure(f, 0) \o a \o Ins8(OpCall, 1) \o Ins(OpPop) :
            f \in {FnOne, FnAdd, FnIdentity}, a \in FewLiterals}
    \cup {Ins8(OpGetBuiltIn, k) \o a \o Ins8(OpCall, 1) \o Ins(OpPop) :
            k \in 0..(Len(BuiltIns) - 1), a \in Literals}
    \cup {Ins8(OpGetBuiltIn, k) \o Ins8(OpCall, 0) \o Ins(OpPop) : k \in 0..(Len(BuiltIns) - 1)}
    \cup {c \o Ins8(OpGetBuiltIn, k) \o a \o b \o Ins8(OpCall, 2) \o Ins(OpPop) :
            c \in {Ins(OpFalse)}, k \in 0..(Len(BuiltIns) - 1),
            a \in FewLiterals, b \in FewLiterals}
    \* let f = fn() { let x1..xnl; f() }; f()
    \cup {InsClosure(FnRec(nl), 0) \o Ins16(OpSetGlobal, 0) \o Ins16(OpGetGlobal, 0)
            \o Ins8(OpCall, 0) \o Ins(OpPop) : nl \in 0..MaxNumLocals}

(* The lines a later VM runs over the slab an earlier one left: reads of the
   globals, and a store followed by reads *)
ReplPrograms ==
    {Ins16(OpGetGlobal, i) \o Ins(OpPop) \o Ins16(OpGetGlobal, j) \o Ins(OpPop) :
        i \in {0, GlobalsSize - 1}, j \in {1, 255}}
    \cup {Ins(OpNull) \o Ins16(OpSetGlobal, 0) \o Ins16(OpGetGlobal, 0) \o Ins(OpPop)
            \o Ins16(OpGetGlobal, 256) \o Ins(OpPop)}

(* A forward jump into the operand of the OpConstant it skips: the operand's
   high byte is the byte of OpCall, its low byte the argument count 0, so the
   loop decodes a call of the closure pushed first.  The stream itself holds
   no OpCall instruction. *)
JumpIntoOperand(f) ==
    InsClosure(f, 0) \o Ins16(OpJump, 8) \o Ins16(OpConstant, OpCall * 256)

OperandJumpPrograms == {JumpIntoOperand(f) : f \in {FnOne, FnLoops}}

(* Expression statements of literals: n pairs of OpConstant idx; OpPop *)
ConstantPop(idx) == Ins16(OpConstant, idx) \o Ins(OpPop)

RECURSIVE ConstantPopPrograms(_)
ConstantPopPrograms(n) ==
    IF n = 0 THEN {<<>>}
    ELSE {p \o ConstantPop(idx) : p \in ConstantPopPrograms(n - 1), idx \in 0..StrConst(2)}

Programs ==
    ExpressionPrograms \cup JumpPrograms \cup GlobalPrograms \cup CollectionPrograms
    \cup CallPrograms \cup OperandJumpPrograms
    \cup UNION {ConstantPopPrograms(n) : n \in 1..MaxPairs}

----------------------------------------------------------------------------
(* Construction.  The slabs make() allocates are all nil: the empty sparse
   slab.  The main closure's Fn is the synthetic function over
   bytecode.Instructions. *)
NoLast ==
    [op |-> -1, ip |-> -1, depth |-> 0, sp |-> 0, operand |-> -1,
     jumped |-> FALSE, popped |-> Nil, call |-> NoCall,
     raised |-> NoErr, pushSp |-> -1, frameAt |-> -1, native |-> "", passed |-> <<>>]

NewVM(bytecode) ==
    [stack |-> <<>>, sp |-> 0, globals |-> <<>>,
     frames |-> <<NewFrame(Closure(MainFn), 0)>>, framesIndex |-> 1]

\* a faulty variant of NewVMWithGlobalsStore: the slab handed in is not installed
NewVMWithGlobalsStoreIgnored(bytecode, g) == NewVM(bytecode)

NewVMWithGlobalsStore(bytecode, g) == [NewVM(bytecode) EXCEPT !.globals = g]

Bytecodes(instructions) ==
    {[instructions |-> i, constants |-> Constants] : i \in instructions}

(* The first VM: built over a slab nothing was stored in yet *)
Init ==
    /\ prog \in Bytecodes(Programs)
    /\ stack = NewVMWithGlobalsStore(prog, <<>>).stack
    /\ sp = NewVMWithGlobalsStore(prog, <<>>).sp
    /\ globals = NewVMWithGlobalsStore(prog, <<>>).globals
    /\ frames = NewVMWithGlobalsStore(prog, <<>>).frames
    /\ framesIndex = NewVMWithGlobalsStore(prog, <<>>).framesIndex
    /\ status = "running"
    /\ err = NoErr
    /\ last = NoLast
    /\ prev = NoLast
    /\ calls = <<>>
    /\ vms = 1
    /\ sets = <<>>
    /\ iterations = 0

(* The embedder's read-eval-print loop: once Run has returned, the next line
   is compiled and run by a new VM built over the same globals slab *)
NextVMStep ==
    /\ status \in {"ok", "error"}
    /\ vms < MaxVMs
    /\ \E b \in Bytecodes(ReplPrograms) :
          LET vm == NewVMWithGlobalsStore(b, globals)
          IN  /\ prog' = b
              /\ stack' = vm.stack
              /\ sp' = vm.sp
              /\ globals' = vm.globals
              /\ frames' = vm.frames
              /\ framesIndex' = vm.framesIndex
    /\ status' = "running"
    /\ err' = NoErr
    /\ last' = NoLast
    /\ prev' = NoLast
    /\ calls' = <<>>
    /\ vms' = vms + 1
    /\ sets' = sets
    /\ iterations' = 0

(* VM.Run: every step is one iteration of its loop or the loop's exit *)
Run ==
    \/ OpConstantStep
    \/ OpTrueStep
    \/ OpFalseStep
    \/ OpNullStep
    \/ OpPopStep
    \/ OpJumpNotTruthyStep
    \/ OpJumpStep
    \/ OpArithmeticStep
    \/ OpComparisonStep
    \/ OpMinusStep
    \/ OpBangStep
    \/ OpGetGlobalStep
    \/ OpSetGlobalStep
    \/ OpGetLocalStep
    \/ OpSetLocalStep
    \/ OpArrayStep
    \/ OpHashMapStep
    \/ OpIndexStep
    \/ OpCallStep
    \/ OpReturnValueStep
    \/ OpReturnStep
    \/ OpGetBuiltInStep
    \/ OpClosureStep
    \/ InvalidOpcodeStep
    \/ RunReturnsNil

Next ==
    \/ Run
    \/ NextVMStep

Spec == Init /\ [][Next]_vars

(* The programs that run until a slab is exhausted, thousands of iterations
   each *)
LongRunningPrograms ==
    {InsClosure(FnSelfCall, 0) \o Ins8(OpCall, 0) \o Ins(OpPop),
     Ins(OpTrue) \o Ins16(OpJump, 0)}
    \cup {InsClosure(FnRec(nl), 0) \o Ins16(OpSetGlobal, 0) \o Ins16(OpGetGlobal, 0)
            \o Ins8(OpCall, 0) \o Ins(OpPop) : nl \in 0..MaxNumLocals}

(* The runs that are followed to their end: the expression, jump, collection
   and call programs that do not run long *)
TerminationPrograms ==
    ExpressionPrograms \cup JumpPrograms \cup CollectionPrograms \cup OperandJumpPrograms
    \cup (CallPrograms \ LongRunningPrograms)

LiveInit == Init /\ prog.instructions \in TerminationPrograms

(* Run is sequential code on one goroutine: while an iteration or the exit of
   the loop is possible, it is taken.  Nothing obliges the embedder to build
   another VM. *)
LiveSpec == LiveInit /\ [][Next]_vars /\ WF_vars(Run)

----------------------------------------------------------------------------
(* Properties *)

StackOverflow == Errorf("stack overflow", <<>>)
AtBoundary == status # "panic"       \* the last instruction ran to its end

\* C1: at every instruction boundary of Run the stack pointer satisfies
\* 0 <= sp <= StackSize.
C1_StackPointerInRange == AtBoundary => (0 <= sp /\ sp <= StackSize)

\* C2: in every state Run reaches the number of live frames satisfies
\* 1 <= framesIndex <= MaxFrames: no return pops the top-level frame and no
\* call raises the depth above MaxFrames.
C2_FrameDepthInRange == 1 <= framesIndex /\ framesIndex <= MaxFrames

\* C3: a push attempted at sp = StackSize makes Run return "stack overflow"
\* and leaves sp and the stack as they were, no push attempted at
\* sp < StackSize returns that error, and the stack never grows past
\* StackSize slots.
C3_OverflowExactlyAtStackSize ==
    /\ last.pushSp = StackSize =>
          status = "error" /\ err = StackOverflow /\ sp = StackSize
    /\ (last.pushSp >= 0 /\ last.pushSp < StackSize) => last.raised # StackOverflow
    /\ Len(stack) <= StackSize
    /\ sp <= StackSize

\* C4: an OpCall on a closure that would push a frame while MaxFrames frames
\* are live makes Run return an error; the frame stack does not grow and the
\* VM does not fault.
C4_FrameOverflowIsAnError ==
    last.frameAt = MaxFrames =>
        status = "error" /\ framesIndex = MaxFrames /\ Len(frames) <= MaxFrames

(* Functions of the constant pool whose ip can reach the end of their own
   instruction buffer: the body has no return, or jumps past it *)
FallsOffEnd == {FnNoReturn, FnJumpOut}

AtEndOfCurrentFrame == currentFrame(S).ip >= Len(Instructions(currentFrame(S))) - 1

\* C5 as written: Run returns nil only when the current frame is the top-level
\* frame and its ip has reached the end of its instruction buffer.
C5_ReturnsNilOnlyAtTopLevel ==
    status = "ok" => framesIndex = 1 /\ AtEndOfCurrentFrame

\* C5 amended: Run returns nil only when the ip of the current frame has
\* reached the end of that frame's instruction buffer; the current frame is
\* the top-level one unless it runs a function whose ip can reach the end of
\* its buffer without a return.
C5_ReturnsNilAtEndOfCurrentFrame ==
    status = "ok" =>
        /\ AtEndOfCurrentFrame
        /\ framesIndex = 1 \/ currentFrame(S).cl.Fn \in FallsOffEnd

C5_Witness == status = "ok" /\ framesIndex = 2 /\ currentFrame(S).cl.Fn = FnNoReturn

\* C6: as soon as an instruction produces an error Run returns that error, and
\* after it nothing of the VM changes again: the only step left is the
\* embedder's, which builds the next VM.
C6_ErrorAbortsRun ==
    /\ [](last.raised # NoErr => status = "error" /\ err = last.raised)
    /\ [][status = "error" => vms' = vms + 1]_vars

C6_Witness == status = "error" /\ last.op = OpAdd /\ last.raised # NoErr /\ sp = 0

\* C7: after the return that matches a closure call made with argc arguments at
\* stack depth d, the depth is d - argc - 1 + 1, the returned value (NULL for
\* OpReturn) is on top, and the caller's frame is the current frame again.
C7_ReturnRestoresCallerDepth ==
    (last.op \in {OpReturnValue, OpReturn} /\ last.call # NoCall /\ AtBoundary) =>
        /\ status # "error"
        /\ sp = last.call.d - last.call.argc - 1 + 1
        /\ Top(S) = (IF last.op = OpReturnValue THEN last.popped ELSE Null)
        /\ framesIndex = last.call.depth
        /\ currentFrame(S).ip = last.call.ip

C7_Witness ==
    last.op = OpReturnValue /\ last.call.argc = 2 /\ status = "running" /\ sp = 1

\* C8: after an OpJump, or an OpJumpNotTruthy that jumps, the next opcode the
\* loop decodes is the byte at the encoded target of the current frame's
\* buffer; if the target is the buffer's length the loop ends instead.
C8_JumpLandsOnTarget ==
    [][(status = "running" /\ last.jumped) =>
          /\ last.operand = Len(instr) =>
                status' = "ok" /\ UNCHANGED <<frames, framesIndex, stack, sp, last>>
          /\ last.operand < Len(instr) =>
                /\ prev' = last
                /\ last'.ip = last.operand
                /\ last'.op = At(instr, last.operand)
                /\ last'.depth = last.depth]_vars

C8_Witness ==
    /\ status = "running" /\ prev.op = OpJumpNotTruthy /\ prev.jumped
    /\ last.ip = prev.operand /\ last.op = OpNull

\* C9: OpJumpNotTruthy pops exactly one value and jumps if and only if that
\* value is FALSE or NULL; for every other value execution goes on after its
\* 2-byte operand.
C9_JumpNotTruthyIffFalseOrNull ==
    (last.op = OpJumpNotTruthy /\ status \in {"running", "ok"}) =>
        /\ sp = last.sp - 1
        /\ last.popped = StackAt(stack, sp)
        /\ IF last.popped \in {False, Null}
           THEN currentFrame(S).ip = last.operand - 1
           ELSE currentFrame(S).ip = last.ip + 2

C9_Witness ==
    /\ last.op = OpJumpNotTruthy /\ status = "running"
    /\ last.popped = Integer(0) /\ currentFrame(S).ip = last.ip + 2
    /\ last.operand - 1 # last.ip + 2

\* An OpSetGlobal(i) directly followed by an OpGetGlobal(i), both executed
SetThenGet(i) ==
    /\ prev.op = OpSetGlobal /\ last.op = OpGetGlobal
    /\ status \in {"running", "ok"}
    /\ framesIndex = last.depth /\ prev.depth = last.depth /\ last.ip = prev.ip + 3
    /\ SubSeq(instr, prev.ip + 1, prev.ip + 3) = Ins16(OpSetGlobal, i)
    /\ SubSeq(instr, last.ip + 1, last.ip + 3) = Ins16(OpGetGlobal, i)

\* C10: OpSetGlobal(i) followed by OpGetGlobal(i) leaves the value v that was on
\* top of the stack on top again at the same depth and stores v in globals[i];
\* a global access to index i leaves every globals[j], j # i, as it was.
C10_SetGetGlobalRoundTrip ==
    /\ [](\A i \in GlobalIndexes :
            SetThenGet(i) =>
                /\ sp = prev.sp
                /\ Top(S) = prev.popped
                /\ GlobalAt(globals, i) = prev.popped)
    /\ [][\A i \in GlobalIndexes :
            (status = "running" /\ LoopCond /\ op \in {OpSetGlobal, OpGetGlobal}
               /\ HasUint16 /\ SubSeq(OperandBytes, 1, 2) = U16(i)) =>
                \A j \in GlobalIndexes \cup DOMAIN globals \cup DOMAIN globals' :
                    j # i => GlobalAt(globals', j) = GlobalAt(globals, j)]_vars

C10_Witness ==
    /\ SetThenGet(GlobalsSize - 1)
    /\ status = "running"
    /\ prev.popped = String(<<"a">>)
    /\ 255 \in DOMAIN globals

\* C11: a VM built with NewVMWithGlobalsStore over the slab an earlier VM
\* stored into starts with an empty value stack (sp = 0), only the top-level
\* frame with its ip before the first instruction, and the slab as the earlier
\* VM left it; its OpGetGlobal(i) pushes the value the latest OpSetGlobal(i)
\* stored, whichever VM executed that store.
C11_GlobalsOutliveTheVM ==
    /\ [](last.op = OpGetGlobal /\ status = "running" /\ last.operand \in DOMAIN sets
            => Top(S) = sets[last.operand])
    /\ [][vms' # vms =>
            /\ sp' = 0 /\ stack' = <<>>
            /\ framesIndex' = 1 /\ Len(frames') = 1
            /\ currentFrame(S)'.ip = -1 /\ currentFrame(S)'.basePointer = 0
            /\ currentFrame(S)'.cl = Closure(MainFn)
            /\ \A i \in GlobalIndexes \cup DOMAIN sets :
                  GlobalAt(globals', i) = GlobalAt(globals, i)
            /\ sets' = sets]_vars

C11_Witness ==
    /\ vms = 2 /\ last.op = OpGetGlobal /\ status = "running"
    /\ prev = NoLast /\ last.operand = GlobalsSize - 1
    /\ Top(S) = String(<<"a">>)

\* Two instructions executed one directly after the other in the same frame
Consecutive(o1, o2, width) ==
    /\ prev.op = o1 /\ last.op = o2
    /\ prev.depth = last.depth /\ last.ip = prev.ip + width

\* C12: OpBang executed twice in a row on TRUE leaves TRUE on top, on FALSE
\* leaves FALSE, on NULL leaves FALSE, and the stack depth after the two is the
\* depth before them.
C12_DoubleBang ==
    (Consecutive(OpBang, OpBang, 1) /\ status \in {"running", "ok"}) =>
        /\ sp = prev.sp
        /\ prev.popped \in {True, False} => Top(S) = prev.popped
        /\ prev.popped = Null => Top(S) = False

C12_Witness ==
    /\ Consecutive(OpBang, OpBang, 1) /\ status = "running"
    /\ prev.popped = Null /\ Top(S) = False /\ sp = 1

\* The program is a non-empty sequence of (OpConstant idx; OpPop) pairs
IsConstantPopProgram(ins) ==
    /\ Len(ins) > 0 /\ Len(ins) % 4 = 0
    /\ \A k \in 0..((Len(ins) \div 4) - 1) :
          /\ At(ins, 4 * k) = OpConstant
          /\ At(ins, 4 * k + 3) = OpPop
          /\ InRange(prog.constants, ReadUint16(SubSeq(ins, 4 * k + 2, 4 * k + 3)))

LastConstantOf(ins) == At(prog.constants, ReadUint16(SubSeq(ins, Len(ins) - 2, Len(ins) - 1)))

\* C13: a program that is a sequence of (OpConstant idx; OpPop) pairs, run
\* from an empty stack, never fails, and once Run has returned sp = 0,
\* StackTop() returns nothing and LastPoppedStackElem() returns the constant
\* the last OpConstant loaded.
C13_ConstantPopLeavesLastConstant ==
    (vms = 1 /\ IsConstantPopProgram(prog.instructions)) =>
        /\ status \in {"running", "ok"}
        /\ status = "ok" =>
              /\ sp = 0
              /\ StackTop(S) = Returned(Nil)
              /\ LastPoppedStackElem(S) = Returned(LastConstantOf(prog.instructions))

C13_Witness ==
    /\ vms = 1 /\ status = "ok" /\ Len(prog.instructions) = 4 * MaxPairs
    /\ IsConstantPopProgram(prog.instructions)
    /\ LastPoppedStackElem(S) = Returned(String(<<"a">>))
    /\ stack[1] = String(<<"a">>)

\* C14: after every instruction, in every state with 0 <= sp <= StackSize (a
\* completely full stack included), LastPoppedStackElem can read stack[sp],
\* and right after an OpPop that slot holds the value popped.
C14_LastPoppedSlotReadable ==
    (AtBoundary /\ 0 <= sp /\ sp <= StackSize) =>
        /\ LastPoppedStackElem(S) # Faulted
        /\ (last.op = OpPop /\ status \in {"running", "ok"}) =>
               LastPoppedStackElem(S) = Returned(last.popped)

(* The loop is about to execute OpCall(Argc) with its callee slot inside the
   stack; Callee is the value in that slot *)
Argc == ReadUint8(OperandBytes)

AboutToCall ==
    /\ status = "running" /\ LoopCond /\ op = OpCall /\ HasUint8
    /\ sp - 1 - Argc >= 0 /\ sp - 1 - Argc < StackSize

Callee == StackAt(stack, sp - 1 - Argc)

WrongNumberOfArguments(expected, got) ==
    Errorf("wrong number of arguments: expected=%d, got=%d", <<expected, got>>)

\* C15: OpCall(argc) on a Closure whose function takes a number of parameters
\* other than argc makes Run return "wrong number of arguments: expected=<the
\* parameters>, got=<argc>"; no frame is pushed: the frame depth, sp, the stack
\* and the current frame's closure are what they were before the call.
C15_WrongArgumentCount ==
    [][(AboutToCall /\ Type(Callee) = "CLOSURE" /\ FnOf(Callee).numParameters # Argc) =>
          /\ status' = "error"
          /\ err' = WrongNumberOfArguments(FnOf(Callee).numParameters, Argc)
          /\ framesIndex' = framesIndex /\ Len(frames') = Len(frames)
          /\ sp' = sp /\ stack' = stack
          /\ currentFrame(S)'.cl = currentFrame(S).cl
          /\ currentFrame(S)'.basePointer = currentFrame(S).basePointer]_vars

C15_Witness ==
    /\ last.op = OpCall /\ last.operand = 1 /\ status = "error"
    /\ err = WrongNumberOfArguments(2, 1)
    /\ framesIndex = 1 /\ sp = 2 /\ StackAt(stack, 0) = Closure(FnAdd)

\* The innermost closure call that has not returned yet
InnermostCall == calls[Len(calls)]

\* C16: OpCall(argc) on a Closure that takes argc parameters pushes exactly
\* one frame, with base pointer (sp before the call) - argc and ip before the
\* first instruction, and sets sp = base pointer + NumLocals; no stack slot is
\* written and the frames below keep their closure and base pointer.  In the
\* new frame OpGetLocal(i), i < argc, pushes the i-th argument of the call.
C16_CallEntersFrame ==
    /\ [][(AboutToCall /\ Type(Callee) = "CLOSURE" /\ FnOf(Callee).numParameters = Argc) =>
             /\ status' = "running"
             /\ framesIndex' = framesIndex + 1
             /\ currentFrame(S)' = NewFrame(Callee, sp - Argc)
             /\ sp' = (sp - Argc) + FnOf(Callee).numLocals
             /\ stack' = stack
             /\ \A k \in 0..(framesIndex - 1) :
                   /\ FrameAt(frames', k).cl = FrameAt(frames, k).cl
                   /\ FrameAt(frames', k).basePointer = FrameAt(frames, k).basePointer]_vars
    /\ []((last.op = OpGetLocal /\ status = "running" /\ calls # <<>>
             /\ framesIndex = InnermostCall.depth + 1
             /\ last.operand < InnermostCall.argc) =>
               Top(S) = InnermostCall.args[last.operand + 1])

\* The values stack[sp - Argc .. sp) the call about to execute finds above its callee
ArgsOnStack == [i \in 1..Argc |-> StackAt(stack, sp - Argc + i - 1)]

\* C17: OpCall(argc) on a built-in at stack depth d (callee and arguments
\* inside the stack: d <= StackSize) pushes no frame, hands the native function
\* exactly stack[d-argc .. d) in order whatever argc is, and leaves sp = d - argc
\* with the native result on top, NULL when the native function returned no
\* value; the slots below the callee are untouched.
C17_BuiltInCall ==
    [][(AboutToCall /\ Type(Callee) = "BUILTIN" /\ sp <= StackSize) =>
          /\ status' = "running"
          /\ framesIndex' = framesIndex /\ Len(frames') = Len(frames)
          /\ currentFrame(S)'.cl = currentFrame(S).cl
          /\ currentFrame(S)'.basePointer = currentFrame(S).basePointer
          /\ last'.native = Callee.name
          /\ last'.passed = ArgsOnStack
          /\ sp' = sp - Argc
          /\ Top(S)' = (IF BuiltInFn(Callee.name, ArgsOnStack) # Nil
                        THEN BuiltInFn(Callee.name, ArgsOnStack) ELSE Null)
          /\ Callee.name = "puts" => Top(S)' = Null
          /\ (Callee.name = "len" /\ Argc # 1) => Type(Top(S)') = "ERROR"
          /\ \A k \in 0..(sp - Argc - 2) : StackAt(stack', k) = StackAt(stack, k)]_vars

C17_Witness ==
    /\ last.op = OpCall /\ last.operand = 2 /\ last.native = "puts"
    /\ last.passed = <<Integer(1), True>>
    /\ status = "running" /\ framesIndex = 1 /\ sp = 2
    /\ Top(S) = Null /\ StackAt(stack, 0) = False

(* The loop is about to execute a binary operator of the set ops on two
   values: RightOperand is on top of the stack, LeftOperand below it *)
RightOperand == StackAt(stack, sp - 1)
LeftOperand == StackAt(stack, sp - 2)

AboutToOperate(ops) ==
    /\ status = "running" /\ LoopCond /\ op \in ops
    /\ sp >= 2 /\ sp <= StackSize
    /\ LeftOperand # Nil /\ RightOperand # Nil

BothOfType(ty) == Type(LeftOperand) = ty /\ Type(RightOperand) = ty

Pushed(v) == status' = "running" /\ sp' = sp - 1 /\ Top(S)' = v

ReturnedError(e) == status' = "error" /\ err' = e /\ sp' = sp - 2 /\ stack' = stack

\* C18: OpEqual, OpNotEqual and OpGreaterThan take the right operand from the
\* top and the left one below it.  Two integers: TRUE or FALSE for l = r,
\* l # r, l > r.  Two booleans: TRUE or FALSE for OpEqual and OpNotEqual, an
\* error for OpGreaterThan.  Any other pair, NULL with NULL included: the error
\* "unsupported types for binary comparison" with the two types; an error
\* pushes nothing.
C18_Comparison ==
    [][AboutToOperate({OpEqual, OpNotEqual, OpGreaterThan}) =>
          IF BothOfType("INTEGER")
          THEN Pushed(nativeBoolToBooleanObject(
                        CASE op = OpEqual -> LeftOperand.ival = RightOperand.ival
                          [] op = OpNotEqual -> LeftOperand.ival # RightOperand.ival
                          [] op = OpGreaterThan -> LeftOperand.ival > RightOperand.ival))
          ELSE IF BothOfType("BOOLEAN")
          THEN IF op = OpGreaterThan
               THEN ReturnedError(Errorf("unknown binary boolean comparison operator: %d",
                                         <<OpGreaterThan>>))
               ELSE Pushed(nativeBoolToBooleanObject(
                             (op = OpEqual) = (LeftOperand.bval = RightOperand.bval)))
          ELSE ReturnedError(Errorf("unsupported types for binary comparison: %s %s",
                                    <<Type(LeftOperand), Type(RightOperand)>>))]_vars

C18_Witness ==
    /\ last.op = OpEqual /\ status = "error" /\ sp = 0
    /\ err = Errorf("unsupported types for binary comparison: %s %s", <<"NULL", "NULL">>)
    /\ StackAt(stack, 0) = Null /\ StackAt(stack, 1) = Null

UnsupportedTypesForBinaryOperation ==
    Errorf("unsupported types for binary operation: %s %s",
           <<Type(LeftOperand), Type(RightOperand)>>)

Concatenated == Pushed(String(LeftOperand.sval \o RightOperand.sval))

\* C19 as written: for OpAdd, OpSub, OpMul and OpDiv every pair of operands
\* that is not two integers and not two strings under OpAdd makes Run return
\* "unsupported types for binary operation: <ltype> <rtype>", two strings
\* under OpSub, OpMul or OpDiv included; two strings under OpAdd push the left
\* one followed by the right one.
C19_UnsupportedTypesForAllButAdd ==
    [][(AboutToOperate({OpAdd, OpSub, OpMul, OpDiv}) /\ ~BothOfType("INTEGER")) =>
          IF BothOfType("STRING") /\ op = OpAdd
          THEN Concatenated
          ELSE ReturnedError(UnsupportedTypesForBinaryOperation)]_vars

\* C19 amended: two strings under OpAdd push the left one followed by the
\* right one; two strings under OpSub, OpMul or OpDiv make Run return "unknown
\* binary string operator: <opcode>"; every other pair that is not two integers
\* makes Run return "unsupported types for binary operation: <ltype> <rtype>".
C19_StringOperatorsHaveTheirOwnError ==
    [][(AboutToOperate({OpAdd, OpSub, OpMul, OpDiv}) /\ ~BothOfType("INTEGER")) =>
          IF BothOfType("STRING")
          THEN IF op = OpAdd
               THEN Concatenated
               ELSE ReturnedError(Errorf("unknown binary string operator: %d", <<op>>))
          ELSE ReturnedError(UnsupportedTypesForBinaryOperation)]_vars

C19_Witness ==
    /\ last.op = OpSub /\ status = "error" /\ sp = 0
    /\ StackAt(stack, 0) = String(<<"a", "b">>) /\ StackAt(stack, 1) = String(<<"b">>)
    /\ err = Errorf("unknown binary string operator: %d", <<OpSub>>)

(* The instruction just executed is the return that matches the closure
   call last.call, whose record kept the stack below the callee *)
CallCompleted ==
    /\ last.op \in {OpReturnValue, OpReturn} /\ last.call # NoCall /\ last.call.tracked
    /\ status = "running"

BasePointerOf(call) == call.d - call.argc

BelowCalleeAsBefore ==
    /\ \A k \in 1..Len(last.call.below) : StackAt(stack, k - 1) = last.call.below[k]
    /\ Len(last.call.below) = BasePointerOf(last.call) - 1
    /\ framesIndex = last.call.depth
    /\ currentFrame(S).ip = last.call.ip

\* C20 as written: across any complete closure call, nested calls included,
\* every stack slot below the callee's slot holds after the return the value
\* it held before the call, and the caller resumes at the instruction directly
\* after the operand byte of its OpCall.
C20_CallLeavesStackBelow == CallCompleted => BelowCalleeAsBefore

\* C20 amended: the same, for every complete closure call during which sp and
\* the current frame's base pointer are never below the call's base pointer
\* at an instruction boundary.
C20_DisciplinedCallLeavesStackBelow ==
    (CallCompleted /\ last.call.low >= BasePointerOf(last.call)) => BelowCalleeAsBefore

C20_Witness ==
    /\ CallCompleted /\ last.call.low >= BasePointerOf(last.call)
    /\ last.call.depth = 2 /\ last.call.argc = 0 /\ Len(last.call.below) = 4
    /\ calls # <<>> /\ sp = 5

----------------------------------------------------------------------------
(* Termination of Run on call-free programs whose jumps go forward *)

(* The operand bytes each case of Run's switch reads after the opcode *)
OperandWidth(o) ==
    IF o \in {OpConstant, OpJump, OpJumpNotTruthy, OpGetGlobal, OpSetGlobal, OpArray,
               OpHashMap} THEN 2
    ELSE IF o \in {OpGetLocal, OpSetLocal, OpGetBuiltIn, OpCall} THEN 1
    ELSE IF o = OpClosure THEN 3
    ELSE 0

(* The offsets of the instructions of ins, read one after the other from pos *)
RECURSIVE Offsets(_, _)
Offsets(ins, pos) ==
    IF pos >= Len(ins) THEN {}
    ELSE {pos} \cup Offsets(ins, pos + 1 + OperandWidth(At(ins, pos)))

Jumps(ins) == {p \in Offsets(ins, 0) : At(ins, p) \in {OpJump, OpJumpNotTruthy}}

TargetOf(ins, p) == ReadUint16(SubSeq(ins, p + 2, Len(ins)))

\* no instruction is cut short by the end of the stream
Whole(ins) == \A p \in Offsets(ins, 0) : p + 1 + OperandWidth(At(ins, p)) <= Len(ins)

ContainsNoOpCall(ins) == \A p \in Offsets(ins, 0) : At(ins, p) # OpCall

JumpsForward(ins) == \A p \in Jumps(ins) : TargetOf(ins, p) > p

\* every jump lands on an instruction, or at or past the end of the stream
JumpsOntoInstructions(ins) ==
    \A p \in Jumps(ins) :
        TargetOf(ins, p) \in Offsets(ins, 0) \/ TargetOf(ins, p) >= Len(ins)

ForwardCallFree ==
    /\ Whole(prog.instructions)
    /\ ContainsNoOpCall(prog.instructions)
    /\ JumpsForward(prog.instructions)

TopLevelIp == FrameAt(frames, 0).ip

Iterating == status = "running" /\ LoopCond

\* C21 as written: on every program with no OpCall whose jump targets are all
\* greater than the jump's own offset, Run eventually returns nil or an error,
\* every iteration of the loop leaves the top-level ip greater than it found
\* it, and the loop runs at most len(instructions) iterations.
C21_RunEventuallyReturns ==
    /\ [][(ForwardCallFree /\ Iterating) => TopLevelIp' > TopLevelIp]_vars
    /\ [](ForwardCallFree => iterations <= Len(prog.instructions))
    /\ (ForwardCallFree /\ status = "running") ~> (status \in {"ok", "error"})

\* C21, amended: on every program with no OpCall whose jumps all land on an
\* instruction (or at or past the end) at an offset greater than their own,
\* the run eventually ends, by Run returning nil or an error or by a panic
\* (a division by zero, a pop from the empty stack, a return at the top
\* level); every iteration leaves the top-level ip greater than it found it,
\* and the loop runs at most len(instructions) iterations.
C21_RunEventuallyEnds ==
    /\ [][(ForwardCallFree /\ JumpsOntoInstructions(prog.instructions) /\ Iterating) =>
            TopLevelIp' > TopLevelIp]_vars
    /\ []((ForwardCallFree /\ JumpsOntoInstructions(prog.instructions)) =>
            iterations <= Len(prog.instructions))
    /\ (ForwardCallFree /\ JumpsOntoInstructions(prog.instructions) /\ status = "running")
         ~> (status # "running")

\* C21's case: a program of the class has taken a forward OpJump and Run has
\* returned nil after as many iterations as the taken path has instructions
C21_Witness ==
    /\ ForwardCallFree /\ JumpsOntoInstructions(prog.instructions)
    /\ status = "ok" /\ prev.op = OpJump /\ prev.jumped
    /\ iterations >= 4 /\ iterations < Len(prog.instructions)

====
